---- MODULE Spec2Model ----
(***************************************************************************)
(* A model of todo_python/main.py: the login gate, the per-user JSON file  *)
(* and the task list of ToDoApp with its button handlers.                  *)
(*                                                                         *)
(* Conventions.                                                            *)
(*  - A Python str is a sequence of one-character strings, so that strip,  *)
(*    isalnum and strptime are computed character by character.            *)
(*  - A Python value is a record tagged by its type (t); a JSON value in a  *)
(*    file is a record tagged by its kind.  Saving and loading convert      *)
(*    between the two.                                                      *)
(*  - Python's None for selected_index is the integer None (-1); list       *)
(*    positions are 0-based as in the source, TLA+ sequences are 1-based.   *)
(*  - The characters of the model are ASCII; a write to the file is taken   *)
(*    to succeed (the source does not handle a failing write).             *)
(***************************************************************************)
EXTENDS Integers, Sequences, FiniteSets, TLC

(***************************************************************************)
(* Bounds                                                                  *)
(***************************************************************************)
\* the longest task list a session grows to (add is disabled beyond it)
MaxTasks == 2

(***************************************************************************)
(* Python str helpers                                                      *)
(***************************************************************************)
DigitChars == <<"0", "1", "2", "3", "4", "5", "6", "7", "8", "9">>

IsDigit(c) == \E i \in 1..10 : DigitChars[i] = c

DigitVal(c) == (CHOOSE i \in 1..10 : DigitChars[i] = c) - 1

LetterChars == {"a", "b", "c", "l", "i", "e", "x", "y", "z"}

\* str.isspace for one character of the model's alphabet
IsSpace(c) == c = " "

RECURSIVE lstrip(_)
lstrip(s) == IF s # <<>> /\ IsSpace(Head(s)) THEN lstrip(Tail(s)) ELSE s

RECURSIVE rstrip(_)
rstrip(s) ==
    IF s # <<>> /\ IsSpace(s[Len(s)]) THEN rstrip(SubSeq(s, 1, Len(s) - 1)) ELSE s

\* str.strip()
strip(s) == rstrip(lstrip(s))

\* str.isalnum(): non-empty and every character a letter or a digit
isalnum(s) ==
    /\ s # <<>>
    /\ \A i \in 1..Len(s) : s[i] \in LetterChars \/ IsDigit(s[i])

(***************************************************************************)
(* datetime.strptime(date_str, "%Y-%m-%d")                                 *)
(* The format compiles to the regular expression                           *)
(*   (\d\d\d\d)-(1[0-2]|0[1-9]|[1-9])-(3[0-1]|[1-2]\d|0[1-9]|[1-9]| [1-9]) *)
(* matched at the start of the string; text left over after the match, a   *)
(* year of 0 and a day beyond the month's length raise ValueError.         *)
(***************************************************************************)
At(s, i) == IF i \in 1..Len(s) THEN s[i] ELSE ""

IsDigit19(c) == IsDigit(c) /\ c # "0"

\* length of the text the month group matches at position p (0: no match)
MonthLen(s, p) ==
    IF At(s, p) = "1" /\ At(s, p + 1) \in {"0", "1", "2"} THEN 2
    ELSE IF At(s, p) = "0" /\ IsDigit19(At(s, p + 1)) THEN 2
    ELSE IF IsDigit19(At(s, p)) THEN 1
    ELSE 0

\* length of the text the day group matches at position p (0: no match)
DayLen(s, p) ==
    IF At(s, p) = "3" /\ At(s, p + 1) \in {"0", "1"} THEN 2
    ELSE IF At(s, p) \in {"1", "2"} /\ IsDigit(At(s, p + 1)) THEN 2
    ELSE IF At(s, p) = "0" /\ IsDigit19(At(s, p + 1)) THEN 2
    ELSE IF IsDigit19(At(s, p)) THEN 1
    ELSE IF At(s, p) = " " /\ IsDigit19(At(s, p + 1)) THEN 2
    ELSE 0

\* int() of a matched group (a leading blank of the day group is skipped)
RECURSIVE IntOf(_)
IntOf(s) ==
    IF s = <<>> THEN 0
    ELSE IF s[Len(s)] = " " THEN IntOf(SubSeq(s, 1, Len(s) - 1))
    ELSE 10 * IntOf(SubSeq(s, 1, Len(s) - 1)) + DigitVal(s[Len(s)])

IsLeap(y) == (y % 4 = 0 /\ y % 100 # 0) \/ y % 400 = 0

DaysInMonth(y, m) ==
    IF m = 2 THEN (IF IsLeap(y) THEN 29 ELSE 28)
    ELSE IF m \in {4, 6, 9, 11} THEN 30
    ELSE 31

NoDate == [ok |-> FALSE, year |-> 0, month |-> 0, day |-> 0]

\* the date strptime returns, or NoDate where it raises ValueError
strptime(s) ==
    LET ml == MonthLen(s, 6)
        dp == 7 + ml
        dl == DayLen(s, dp)
    IN  IF /\ \A i \in 1..4 : IsDigit(At(s, i))
           /\ At(s, 5) = "-"
           /\ ml > 0
           /\ At(s, 6 + ml) = "-"
           /\ dl > 0
           /\ dp + dl - 1 = Len(s)
        THEN LET y == IntOf(SubSeq(s, 1, 4))
                 m == IntOf(SubSeq(s, 6, 5 + ml))
                 d == IntOf(SubSeq(s, dp, dp + dl - 1))
             IN  IF y >= 1 /\ d <= DaysInMonth(y, m)
                 THEN [ok |-> TRUE, year |-> y, month |-> m, day |-> d]
                 ELSE NoDate
        ELSE NoDate

\* ToDoApp.validate_date
validate_date(date_str) ==
    IF date_str = <<>> THEN TRUE ELSE strptime(date_str).ok

(***************************************************************************)
(* Python values and JSON values                                           *)
(***************************************************************************)
PyStr(s) == [t |-> "str", v |-> s]
PyNone == [t |-> "NoneType"]
PyInt(digits) == [t |-> "int", digits |-> digits]
PyList(items) == [t |-> "list", items |-> items]
PyDict(map) == [t |-> "dict", map |-> map]

JString(s) == [kind |-> "string", text |-> s]
JNull == [kind |-> "null"]
JNumber(digits) == [kind |-> "number", digits |-> digits]
JArray(items) == [kind |-> "array", items |-> items]
\* members: a sequence of [key, value], in the order written in the file
JObject(members) == [kind |-> "object", members |-> members]
Member(k, v) == [key |-> k, value |-> v]

\* the keys Task.to_dict writes, in the order it writes them
TaskKeys == <<"name", "priority", "due_date", "category", "status">>

PRIORITY_HIGH == <<"H", "i", "g", "h">>
PRIORITY_LOW == <<"L", "o", "w">>
CATEGORY_WORK == <<"W", "o", "r", "k">>
CATEGORY_PERSONAL == <<"P", "e", "r", "s", "o", "n", "a", "l">>
PENDING == <<"P", "e", "n", "d", "i", "n", "g">>
COMPLETED == <<"C", "o", "m", "p", "l", "e", "t", "e", "d">>

\* ToDoApp.PRIORITIES and the categories of ToDoApp.CATEGORIES the model uses
PRIORITIES == {PRIORITY_HIGH, PRIORITY_LOW}
CATEGORIES == {CATEGORY_WORK, CATEGORY_PERSONAL}

\* Task.__init__: the five attributes of a task
Task(name, priority, due_date, category, status) ==
    [name |-> name, priority |-> priority, due_date |-> due_date,
     category |-> category, status |-> status]

\* Task.to_dict
to_dict(task) == PyDict([k \in {TaskKeys[i] : i \in 1..5} |-> task[k]])

\* Task.from_dict on a dict holding the five keys
from_dict(data) ==
    Task(data.map["name"], data.map["priority"], data.map["due_date"],
         data.map["category"], data.map["status"])

\* the exception data["name"] ... data["status"] raises for an item of the list
from_dict_raises(item) ==
    IF item.t # "dict" THEN "TypeError"
    ELSE IF \E i \in 1..5 : TaskKeys[i] \notin DOMAIN item.map THEN "KeyError"
    ELSE "none"

\* json.dump of one scalar
dump_scalar(v) ==
    IF v.t = "str" THEN JString(v.v)
    ELSE IF v.t = "int" THEN JNumber(v.digits)
    ELSE JNull

\* json.load of one scalar
load_scalar(j) ==
    IF j.kind = "string" THEN PyStr(j.text)
    ELSE IF j.kind = "number" THEN PyInt(j.digits)
    ELSE PyNone

\* json.dump of the list of dicts save_tasks builds: an array of objects whose
\* members follow each dict's insertion order
json_dump(data) ==
    JArray([i \in 1..Len(data) |->
              JObject([k \in 1..5 |->
                         Member(TaskKeys[k], dump_scalar(data[i].map[TaskKeys[k]]))])])

\* the dict json.load builds from an object: a repeated key keeps its last value
load_object(members) ==
    LET keys == {members[i].key : i \in 1..Len(members)}
        last(k) == CHOOSE i \in 1..Len(members) :
                      /\ members[i].key = k
                      /\ \A j \in 1..Len(members) : members[j].key = k => j <= i
    IN  PyDict([k \in keys |-> load_scalar(members[last(k)].value)])

\* json.load of an item of the top-level array
load_item(j) ==
    IF j.kind = "object" THEN load_object(j.members)
    ELSE IF j.kind = "array" THEN PyList(<<>>)
    ELSE load_scalar(j)

\* json.load of a document
json_load(doc) ==
    IF doc.kind = "array" THEN PyList([i \in 1..Len(doc.items) |-> load_item(doc.items[i])])
    ELSE IF doc.kind = "object" THEN load_object(doc.members)
    ELSE load_scalar(doc)

(***************************************************************************)
(* Files: absent, or a text that is a JSON document, or a text that is not *)
(***************************************************************************)
NoFile == [exists |-> FALSE]
JsonFile(doc) == [exists |-> TRUE, wellformed |-> TRUE, doc |-> doc]
\* a text json.load cannot parse, such as a truncated document
TruncatedFile == [exists |-> TRUE, wellformed |-> FALSE]

\* TaskStorage.save_tasks: the new content of the file system
save_tasks_skipped(fs, filename, tasks) == fs

save_tasks(fs, filename, tasks) ==
    [fs EXCEPT ![filename] =
        JsonFile(json_dump([i \in 1..Len(tasks) |-> to_dict(tasks[i])]))]

Loaded(tasks) == [raised |-> "none", tasks |-> tasks]
Raised(exc) == [raised |-> exc, tasks |-> <<>>]

\* the list comprehension of load_tasks over a list: the first item that
\* raises decides the outcome
load_list(items) ==
    LET bad == {i \in 1..Len(items) : from_dict_raises(items[i]) # "none"}
    IN  IF bad = {} THEN Loaded([i \in 1..Len(items) |-> from_dict(items[i])])
        ELSE LET first == CHOOSE i \in bad : \A j \in bad : i <= j
             IN  IF from_dict_raises(items[first]) = "KeyError"
                 THEN Loaded(<<>>)
                 ELSE Raised("TypeError")

\* TaskStorage.load_tasks: the tasks returned, or the exception that escapes
load_tasks(file) ==
    IF ~file.exists THEN Loaded(<<>>)
    ELSE IF ~file.wellformed THEN Loaded(<<>>)
    ELSE LET data == json_load(file.doc)
         IN  IF data.t = "list" THEN load_list(data.items)
             ELSE IF data.t = "dict"
                  THEN (IF DOMAIN data.map = {} THEN Loaded(<<>>) ELSE Raised("TypeError"))
             ELSE IF data.t = "str"
                  THEN (IF data.v = <<>> THEN Loaded(<<>>) ELSE Raised("TypeError"))
             ELSE Raised("TypeError")

(***************************************************************************)
(* Inputs of the model: what the user types and what the disk holds        *)
(***************************************************************************)
\* the text of the username entry
ALICE1 == <<"a", "l", "i", "c", "e", "1">>
BEA == <<"b", "e", "a">>

LoginEntries ==
    { ALICE1,
      <<" ">> \o ALICE1 \o <<" ">>,
      BEA,
      <<>>,
      <<" ", " ">>,
      <<"a", "l", "i", "c", "e", "!">> }

\* TaskStorage.__init__: f"{username}_tasks.json"
filename(username) ==
    username \o <<"_", "t", "a", "s", "k", "s", ".", "j", "s", "o", "n">>

Usernames == {ALICE1, BEA}

D_2024_02_29 == <<"2", "0", "2", "4", "-", "0", "2", "-", "2", "9">>
D_2024_02_30 == <<"2", "0", "2", "4", "-", "0", "2", "-", "3", "0">>
D_24_02_01 == <<"2", "4", "-", "0", "2", "-", "0", "1">>
D_2024_2_9 == <<"2", "0", "2", "4", "-", "2", "-", "9">>

\* the content of the form when a button is pressed: the two entries as typed,
\* the two read-only comboboxes as chosen
Form(name, priority, due_date, category) ==
    [name |-> name, priority |-> priority, due_date |-> due_date, category |-> category]

NoForm == Form(<<>>, <<>>, <<>>, <<>>)

FormInputs ==
    { Form(<<" ", "x", " ">>, PRIORITY_HIGH, <<>>, CATEGORY_WORK),
      Form(<<"y">>, PRIORITY_LOW, <<" ">> \o D_2024_02_29 \o <<" ">>, CATEGORY_PERSONAL),
      Form(<<"x">>, PRIORITY_HIGH, D_2024_2_9, CATEGORY_WORK),
      Form(<<" ", " ">>, PRIORITY_LOW, D_2024_02_29, CATEGORY_PERSONAL),
      Form(<<"x">>, PRIORITY_HIGH, D_2024_02_30, CATEGORY_WORK),
      Form(<<"y">>, PRIORITY_LOW, D_24_02_01, CATEGORY_PERSONAL) }

\* a record as save_tasks writes it
JTask(name, priority, due_date, category, status) ==
    JObject(<<Member("name", JString(name)), Member("priority", JString(priority)),
              Member("due_date", JString(due_date)), Member("category", JString(category)),
              Member("status", JString(status))>>)

\* a record without "status"
JNoStatus ==
    JObject(<<Member("name", JString(<<"x">>)), Member("priority", JString(PRIORITY_LOW)),
              Member("due_date", JString(<<>>)), Member("category", JString(CATEGORY_WORK))>>)

\* a record with the five keys in another order, "name" twice, a key the program
\* does not know, a null priority and a due date that is no date
JOdd ==
    JObject(<<Member("status", JString(PENDING)), Member("name", JString(<<"z">>)),
              Member("id", JNumber(<<"7">>)), Member("name", JNull),
              Member("priority", JNull), Member("due_date", JString(D_24_02_01)),
              Member("category", JString(CATEGORY_WORK))>>)

\* what a user's file may hold when the program starts
FileContents ==
    { NoFile,
      TruncatedFile,
      JsonFile(JArray(<<JTask(<<"x">>, PRIORITY_HIGH, <<>>, CATEGORY_WORK, PENDING),
                        JTask(<<"y">>, PRIORITY_LOW, D_2024_02_29, CATEGORY_PERSONAL,
                              COMPLETED)>>)),
      JsonFile(JArray(<<JTask(<<"x">>, PRIORITY_HIGH, <<>>, CATEGORY_WORK, PENDING),
                        JNoStatus>>)),
      JsonFile(JArray(<<JOdd>>)),
      JsonFile(JArray(<<JNumber(<<"1">>)>>)),
      JsonFile(JObject(<<>>)) }

\* the records a file holds
Records(file) ==
    IF file.exists /\ file.wellformed /\ file.doc.kind = "array"
    THEN Len(file.doc.items) ELSE 0

(***************************************************************************)
(* State                                                                   *)
(***************************************************************************)
VARIABLES
    phase,            \* "login": LoginWindow shown; "app": ToDoApp's window shown;
                      \* "crashed": __init__ raised after the login widgets were destroyed
    files,            \* the file system: file name -> content
    username,         \* ToDoApp.username (and the file name of ToDoApp.storage)
    tasks,            \* ToDoApp.tasks
    selected_index,   \* ToDoApp.selected_index
    task_tree,        \* the iids of the rows of ToDoApp.task_tree
    last              \* the handler that ran last, with its input and its outcome

vars == <<phase, files, username, tasks, selected_index, task_tree, last>>

\* Python's None where an index is expected
None == -1

\* the record kept in last (a history variable: the program holds no such field)
Last(op, outcome, form, index, entry) ==
    [op |-> op, outcome |-> outcome, form |-> form, index |-> index, entry |-> entry]

\* main: the login window is shown and no ToDoApp exists yet.  The file of
\* ALICE1 holds any of FileContents; BEA has not used the program before.
Init ==
    /\ phase = "login"
    /\ files \in [{filename(u) : u \in Usernames} -> FileContents]
    /\ files[filename(BEA)] = NoFile
    /\ username = <<>>
    /\ tasks = <<>>
    /\ selected_index = None
    /\ task_tree = {}
    /\ last = Last("start", "ok", NoForm, None, <<>>)

(***************************************************************************)
(* ToDoApp                                                                 *)
(***************************************************************************)
\* refresh_task_list: the rows of the tree after it, one per task, iid = position
refresh_task_list_keeps_row(ts) == 0..Len(ts)

refresh_task_list(ts) == 0..(Len(ts) - 1)

\* ToDoApp.__init__ (reached from LoginWindow.login and from on_login)
ToDoApp_init(name) ==
    LET got == load_tasks(files[filename(name)])
    IN  /\ username' = name
        /\ IF got.raised = "none"
           THEN /\ tasks' = got.tasks
                /\ selected_index' = None
                /\ task_tree' = refresh_task_list(got.tasks)
                /\ phase' = "app"
           ELSE /\ UNCHANGED <<tasks, selected_index, task_tree>>
                /\ phase' = "crashed"
        /\ UNCHANGED files

\* LoginWindow.login
login(entry) ==
    /\ phase = "login"
    /\ LET name == strip(entry)
       IN  IF name = <<>> \/ ~isalnum(name)
           THEN /\ last' = Last("login", "rejected", NoForm, None, entry)
                /\ UNCHANGED <<phase, files, username, tasks, selected_index,
                               task_tree>>
           ELSE /\ ToDoApp_init(name)
                /\ last' = Last("login",
                                IF load_tasks(files[filename(name)]).raised = "none"
                                THEN "ok" ELSE "raised",
                                NoForm, None, entry)

\* ToDoApp.on_task_select after a click on the row iid, which makes it the
\* selection of the tree
on_task_select(iid) ==
    /\ phase = "app"
    /\ iid \in task_tree
    /\ selected_index' = iid
    /\ last' = Last("select", "ok", NoForm, iid, <<>>)
    /\ UNCHANGED <<phase, files, username, tasks, task_tree>>

\* why add_task and update_task refuse the form ("ok": they do not)
form_verdict(form) ==
    IF strip(form.name) = <<>> THEN "no_name"
    ELSE IF ~validate_date(strip(form.due_date)) THEN "bad_date"
    ELSE "ok"

\* the Task add_task builds from get_form_data
new_task_completed(form) ==
    Task(PyStr(strip(form.name)), PyStr(form.priority), PyStr(strip(form.due_date)),
         PyStr(form.category), PyStr(COMPLETED))

new_task(form) ==
    Task(PyStr(strip(form.name)), PyStr(form.priority), PyStr(strip(form.due_date)),
         PyStr(form.category), PyStr(PENDING))

\* the tasks on disk in the files of the other users
RECURSIVE StoredIn(_)
StoredIn(names) ==
    IF names = {} THEN 0
    ELSE LET f == CHOOSE f \in names : TRUE
         IN  Records(files[f]) + StoredIn(names \ {f})

\* ToDoApp.add_task (enabled while the tasks held over all users stay within MaxTasks)
add_task(form) ==
    /\ phase = "app"
    /\ form_verdict(form) = "ok" =>
          Len(tasks) + StoredIn(DOMAIN files \ {filename(username)}) < MaxTasks
    /\ last' = Last("add", form_verdict(form), form, None, <<>>)
    /\ IF form_verdict(form) # "ok"
       THEN UNCHANGED <<phase, files, username, tasks, selected_index, task_tree>>
       ELSE /\ tasks' = Append(tasks, new_task(form))
            /\ files' = save_tasks(files, filename(username), tasks')
            /\ task_tree' = refresh_task_list(tasks')
            /\ selected_index' = None
            /\ UNCHANGED <<phase, username>>

\* the assignments of update_task to the selected task
set_fields_resets_status(task, form) ==
    new_task(form)

set_fields(task, form) ==
    [task EXCEPT !.name = PyStr(strip(form.name)),
                 !.priority = PyStr(form.priority),
                 !.due_date = PyStr(strip(form.due_date)),
                 !.category = PyStr(form.category)]

\* ToDoApp.update_task
update_task(form) ==
    /\ phase = "app"
    /\ LET verdict == IF selected_index = None THEN "no_selection" ELSE form_verdict(form)
       IN  /\ last' = Last("update", verdict,
                            IF verdict = "no_selection" THEN NoForm ELSE form,
                            selected_index, <<>>)
           /\ IF verdict # "ok"
              THEN UNCHANGED <<phase, files, username, tasks, selected_index, task_tree>>
              ELSE /\ tasks' = [tasks EXCEPT ![selected_index + 1] =
                                                set_fields(tasks[selected_index + 1], form)]
                   /\ files' = save_tasks(files, filename(username), tasks')
                   /\ task_tree' = refresh_task_list(tasks')
                   /\ UNCHANGED <<phase, username, selected_index>>

\* del self.tasks[index]
del_last(ts, index) == SubSeq(ts, 1, Len(ts) - 1)

del(ts, index) ==
    [j \in 1..(Len(ts) - 1) |-> IF j < index + 1 THEN ts[j] ELSE ts[j + 1]]

\* ToDoApp.delete_task; yes: the answer to the confirmation dialog
delete_task(yes) ==
    /\ phase = "app"
    /\ LET verdict == IF selected_index = None THEN "no_selection"
                      ELSE IF yes THEN "ok" ELSE "declined"
       IN  /\ last' = Last("delete", verdict, NoForm, selected_index, <<>>)
           /\ IF verdict # "ok"
              THEN UNCHANGED <<phase, files, username, tasks, selected_index, task_tree>>
              ELSE /\ tasks' = del(tasks, selected_index)
                   /\ files' = save_tasks(files, filename(username), tasks')
                   /\ task_tree' = refresh_task_list(tasks')
                   /\ selected_index' = None
                   /\ UNCHANGED <<phase, username>>

\* task.status = "Completed"
set_completed_and_priority(task) ==
    [task EXCEPT !.status = PyStr(COMPLETED), !.priority = PyStr(PRIORITY_LOW)]

set_completed(task) == [task EXCEPT !.status = PyStr(COMPLETED)]

\* ToDoApp.mark_completed
mark_completed ==
    /\ phase = "app"
    /\ LET verdict == IF selected_index = None THEN "no_selection"
                      ELSE IF tasks[selected_index + 1].status = PyStr(COMPLETED)
                           THEN "already"
                      ELSE "ok"
       IN  /\ last' = Last("mark", verdict, NoForm, selected_index, <<>>)
           /\ IF verdict # "ok"
              THEN UNCHANGED <<phase, files, username, tasks, selected_index, task_tree>>
              ELSE /\ tasks' = [tasks EXCEPT ![selected_index + 1] =
                                                set_completed(tasks[selected_index + 1])]
                   /\ files' = save_tasks(files, filename(username), tasks')
                   /\ task_tree' = refresh_task_list(tasks')
                   /\ UNCHANGED <<phase, username, selected_index>>

\* ToDoApp.clear_form
clear_form ==
    /\ phase = "app"
    /\ selected_index' = None
    /\ last' = Last("clear", "ok", NoForm, None, <<>>)
    /\ UNCHANGED <<phase, files, username, tasks, task_tree>>

\* ToDoApp.logout; yes: the answer to the confirmation dialog
logout(yes) ==
    /\ phase = "app"
    /\ last' = Last("logout", IF yes THEN "ok" ELSE "declined", NoForm, None, <<>>)
    /\ IF yes
       THEN /\ phase' = "login"
            /\ task_tree' = {}
            /\ UNCHANGED <<files, username, tasks, selected_index>>
       ELSE UNCHANGED <<phase, files, username, tasks, selected_index, task_tree>>

Next ==
    \/ \E entry \in LoginEntries : login(entry)
    \/ \E iid \in 0..MaxTasks : on_task_select(iid)
    \/ \E form \in FormInputs : add_task(form)
    \/ \E form \in FormInputs : update_task(form)
    \/ \E yes \in BOOLEAN : delete_task(yes)
    \/ mark_completed
    \/ clear_form
    \/ \E yes \in BOOLEAN : logout(yes)

Spec == Init /\ [][Next]_vars

(***************************************************************************)
(* Properties                                                              *)
(***************************************************************************)
\* the file of the user the session belongs to
ActiveFile == files[filename(username)]

Mutators == {"add", "update", "delete", "mark"}

\* C1: whenever add, update, a confirmed delete or markCompleted has changed the
\* task list and returned, and in every other state of a session, loading the
\* active user's file gives exactly the task list in memory
C1_SavedBeforeReturn ==
    /\ (last.op \in Mutators /\ last.outcome = "ok") => load_tasks(ActiveFile) = Loaded(tasks)
    /\ phase = "app" => load_tasks(ActiveFile) = Loaded(tasks)

\* a state in which update has just rewritten a task of a list of two
C1_Witness ==
    /\ last.op = "update"
    /\ last.outcome = "ok"
    /\ Len(tasks) = 2
    /\ load_tasks(ActiveFile) = Loaded(tasks)

\* the task add is to build from a form: its trimmed fields, status Pending
PendingTaskOf(form) ==
    [name |-> PyStr(strip(form.name)), priority |-> PyStr(form.priority),
     due_date |-> PyStr(strip(form.due_date)), category |-> PyStr(form.category),
     status |-> PyStr(PENDING)]

\* a form add and update accept: a name that is not blank, a due date that is
\* empty or parses
ValidForm(form) ==
    /\ strip(form.name) # <<>>
    /\ (strip(form.due_date) = <<>> \/ strptime(strip(form.due_date)).ok)

\* C2: add with a valid form succeeds and appends exactly one task, with the
\* trimmed fields of the form and status Pending, behind the unchanged earlier
\* tasks; loading the user's file afterwards gives the same list, ending with
\* that task
C2_AddAppendsAndPersists ==
    [][(last'.op = "add" /\ ValidForm(last'.form)) =>
          /\ last'.outcome = "ok"
          /\ Len(tasks') = Len(tasks) + 1
          /\ SubSeq(tasks', 1, Len(tasks)) = tasks
          /\ tasks'[Len(tasks')] = PendingTaskOf(last'.form)
          /\ LET loaded == load_tasks(files'[filename(username')])
             IN  /\ loaded.raised = "none"
                 /\ Len(loaded.tasks) = Len(tasks) + 1
                 /\ loaded.tasks[Len(loaded.tasks)] = PendingTaskOf(last'.form)
                 /\ SubSeq(loaded.tasks, 1, Len(tasks)) = tasks]_vars

\* add has just appended a second task whose name was typed with blanks around it
C2_Witness ==
    /\ last.op = "add"
    /\ last.outcome = "ok"
    /\ Len(tasks) = 2
    /\ strip(last.form.name) # last.form.name
    /\ tasks[2] = PendingTaskOf(last.form)

\* C3: a confirmed delete of the selected position i removes the task at i,
\* keeps the tasks before i, moves every later task down by one and clears the
\* selection; a declined delete changes neither the list nor the files
C3_DeleteShiftsDown ==
    [][last'.op = "delete" =>
          IF selected_index = None THEN last'.outcome = "no_selection"
          ELSE IF last'.outcome = "declined" THEN tasks' = tasks /\ files' = files
          ELSE /\ last'.outcome = "ok"
               /\ Len(tasks') = Len(tasks) - 1
               /\ \A j \in 0..(Len(tasks) - 1) :
                     /\ j < selected_index => tasks'[j + 1] = tasks[j + 1]
                     /\ j > selected_index => tasks'[j] = tasks[j + 1]
               /\ selected_index' = None]_vars

\* a confirmed delete has removed a task that had a task behind it
C3_Witness ==
    /\ last.op = "delete"
    /\ last.outcome = "ok"
    /\ last.index # None
    /\ last.index < Len(tasks)

\* C4: update of the selected position with a valid form succeeds, sets the
\* name, priority, due date and category of that task to the (trimmed) form and
\* leaves its status, its position, the length of the list and every other task
\* as they were
C4_UpdateFrame ==
    [][(last'.op = "update" /\ selected_index # None /\ ValidForm(last'.form)) =>
          /\ last'.outcome = "ok"
          /\ Len(tasks') = Len(tasks)
          /\ selected_index' = selected_index
          /\ tasks'[selected_index + 1] =
                [PendingTaskOf(last'.form) EXCEPT !.status = tasks[selected_index + 1].status]
          /\ \A j \in 1..Len(tasks) : j # selected_index + 1 => tasks'[j] = tasks[j]]_vars

\* update has just rewritten a Completed task in a list of two
C4_Witness ==
    /\ last.op = "update"
    /\ last.outcome = "ok"
    /\ Len(tasks) = 2
    /\ tasks[last.index + 1].status = PyStr(COMPLETED)
    /\ tasks[last.index + 1].name = PyStr(strip(last.form.name))

\* C5: markCompleted on a selected Completed task changes neither the list nor
\* the files; on any other selected task it sets that task's status to
\* Completed and nothing else; either way the task stays selected and
\* Completed, so that repeating the call is the first case
C5_MarkCompleted ==
    [][(last'.op = "mark" /\ selected_index # None) =>
          /\ IF tasks[selected_index + 1].status = PyStr(COMPLETED)
             THEN /\ last'.outcome = "already"
                  /\ tasks' = tasks
                  /\ files' = files
             ELSE /\ last'.outcome = "ok"
                  /\ tasks' = [tasks EXCEPT ![selected_index + 1].status = PyStr(COMPLETED)]
          /\ selected_index' = selected_index
          /\ tasks'[selected_index' + 1].status = PyStr(COMPLETED)]_vars

\* markCompleted has just been applied to a task that was Completed already
C5_Witness ==
    /\ last.op = "mark"
    /\ last.outcome = "already"
    /\ tasks[selected_index + 1].status = PyStr(COMPLETED)

\* the keys of a record of the file
KeysOf(item) ==
    IF item.kind = "object" THEN {item.members[i].key : i \in 1..Len(item.members)} ELSE {}

\* a record that lacks one of the five fields
LacksField(item) == \E i \in 1..5 : TaskKeys[i] \notin KeysOf(item)

\* C6: load never raises; it returns the empty list when the file is absent, is
\* not well-formed JSON or holds a record that lacks one of the five fields,
\* and otherwise every record in file order
C6_LoadNeverRaises ==
    (last.op = "login" /\ last.outcome # "rejected") =>
        /\ last.outcome = "ok"
        /\ IF ~ActiveFile.exists \/ ~ActiveFile.wellformed THEN tasks = <<>>
           ELSE IF ActiveFile.doc.kind # "array" THEN TRUE
           ELSE IF \E i \in 1..Len(ActiveFile.doc.items) : LacksField(ActiveFile.doc.items[i])
                THEN tasks = <<>>
           ELSE tasks = [i \in 1..Len(ActiveFile.doc.items) |->
                            from_dict(load_item(ActiveFile.doc.items[i]))]

\* a due date of exactly the shape YYYY-MM-DD that is a day of the calendar
StrictDate(s) ==
    /\ Len(s) = 10
    /\ \A i \in {1, 2, 3, 4, 6, 7, 9, 10} : IsDigit(s[i])
    /\ s[5] = "-"
    /\ s[8] = "-"
    /\ IntOf(SubSeq(s, 1, 4)) >= 1
    /\ IntOf(SubSeq(s, 6, 7)) \in 1..12
    /\ IntOf(SubSeq(s, 9, 10)) \in 1..DaysInMonth(IntOf(SubSeq(s, 1, 4)), IntOf(SubSeq(s, 6, 7)))

\* a due date that is empty or of that shape
AcceptableDate(s) == s = <<>> \/ StrictDate(s)

\* C7: add or update with a blank name or a malformed due date, update, delete
\* or markCompleted with nothing selected, and login with an empty or
\* non-alphanumeric username leave the task list, the selection and every file
\* as they were
C7_RejectedLeavesState ==
    [][(\/ /\ last'.op \in {"add", "update"}
           /\ last'.form # NoForm
           /\ (strip(last'.form.name) = <<>> \/ ~AcceptableDate(strip(last'.form.due_date)))
        \/ /\ last'.op \in {"update", "delete", "mark"}
           /\ selected_index = None
        \/ /\ last'.op = "login"
           /\ (strip(last'.entry) = <<>> \/ ~isalnum(strip(last'.entry))))
       => (tasks' = tasks /\ selected_index' = selected_index /\ files' = files)]_vars

\* a value that is present, not null, and, as a due date, empty or a date
FieldsOk(task) ==
    /\ \A i \in 1..5 : task[TaskKeys[i]] # PyNone
    /\ task.due_date.t = "str"
    /\ (task.due_date.v = <<>> \/ strptime(task.due_date.v).ok)

\* C8: in every state of a session every task in memory, and every record of
\* the file once the session has written it, has five fields that are not null
\* and a due date that is empty or a calendar date; a task add or update has
\* just written has a name that is not empty
C8_TasksWellFormed ==
    /\ phase = "app" => \A i \in 1..Len(tasks) : FieldsOk(tasks[i])
    /\ (last.op \in Mutators /\ last.outcome = "ok") =>
           /\ load_tasks(ActiveFile).raised = "none"
           /\ \A i \in 1..Len(load_tasks(ActiveFile).tasks) :
                 FieldsOk(load_tasks(ActiveFile).tasks[i])
    /\ (last.op = "add" /\ last.outcome = "ok") =>
           tasks[Len(tasks)].name \notin {PyNone, PyStr(<<>>)}
    /\ (last.op = "update" /\ last.outcome = "ok") =>
           tasks[last.index + 1].name \notin {PyNone, PyStr(<<>>)}

\* C9: add and update accept a due date exactly when, trimmed, it is empty or
\* has the shape YYYY-MM-DD and is a day of the calendar
C9_DateAcceptedIffStrict ==
    (last.op \in {"add", "update"} /\ last.outcome \in {"ok", "bad_date"}) =>
        (last.outcome = "ok" <=> AcceptableDate(strip(last.form.due_date)))

\* C10: the selection is None or a position of the task list, and it is None
\* after add, after a confirmed delete, after clear form and after a login that
\* opened a session
C10_SelectionInRange ==
    /\ selected_index = None \/ (0 <= selected_index /\ selected_index < Len(tasks))
    /\ task_tree \subseteq 0..(Len(tasks) - 1)
    /\ (last.op \in {"add", "delete", "login"} /\ last.outcome = "ok") => selected_index = None
    /\ last.op = "clear" => selected_index = None

\* a confirmed delete has removed the last position of a list, which was selected
C10_Witness ==
    /\ last.op = "delete"
    /\ last.outcome = "ok"
    /\ last.index = Len(tasks)
    /\ Len(tasks) >= 1
    /\ selected_index = None
====
